---- MODULE Spec2Model ----
(***************************************************************************)
(* Distributed vector search: the consistent-hash ring, the coordinator    *)
(* (OrchestratorService), the worker service and the metric tree, modelled *)
(* from the Python sources.                                                *)
(*                                                                         *)
(* Specifications of this module:                                          *)
(*   SpecRing    the ring alone: add_node / remove_node / get_node         *)
(*   Spec        the coordinator with its handler threads and the workers  *)
(*   SpecQuery   the coordinator's search_knn / search_range fan-out       *)
(*   SpecTree    inserts into one metric tree, one at a time               *)
(*   SpecWorker  one worker: its handler threads on its metric tree        *)
(*   SpecService one worker called by one client at a time                 *)
(*   SpecStore   inserts through the coordinator, then search_range        *)
(*   SpecUpdate  one worker given vectors of repeated ids, then searched   *)
(*   SpecLock    register / deregister next to inserts and searches, with  *)
(*               fair scheduling of the register / deregister steps        *)
(***************************************************************************)
EXTENDS Integers, Sequences, FiniteSets, TLC

(***************************************************************************)
(* Bounds of the model                                                     *)
(***************************************************************************)
\* virtual points per physical node (the constructor argument `replicas`)
Replicas == 2

\* add_node / remove_node calls in one run of the ring
MaxRingOps == 4

\* calls the coordinator's handler threads start in one run
MaxCalls == 4

\* max_children of the metric tree (config/setting.py has 4)
MaxChildren == 3

\* inserts into one metric tree in one run
MaxInserts == 9

\* calls one worker's handler threads start in one run
MaxWCalls == 7

\* the value Python's None is modelled by
None == "None"

(***************************************************************************)
(* Node ids and keys.  The hash points are the real values of              *)
(*   int(sha1(key).hexdigest(), 16) % 2**32                                *)
(* for these strings.  TLC's integers are 32-bit signed, so the ids and    *)
(* keys are chosen among those whose points lie below 2^31.                *)
(* worker_47976-0 and worker_479079-0 hash to the same point.              *)
(***************************************************************************)
NodeIds == {"worker_47976", "worker_479079", "worker_17"}

\* f"{node_name}-{i}"
VirtualKey(node_name, i) ==
    CASE node_name = "worker_47976" ->
           <<"worker_47976-0", "worker_47976-1", "worker_47976-2">>[i + 1]
      [] node_name = "worker_479079" ->
           <<"worker_479079-0", "worker_479079-1", "worker_479079-2">>[i + 1]
      [] node_name = "worker_17" ->
           <<"worker_17-0", "worker_17-1", "worker_17-2">>[i + 1]

VectorIds == {"vec_10", "vec_20", "vec_0", "vec_8"}

\* keys looked up on the ring: vector ids, and one key that hashes exactly
\* onto a virtual point
Keys == VectorIds \cup {"worker_17-0"}

Sha1Low32 ==
    ( "worker_47976-0"  :> 362718191  @@ "worker_47976-1"  :> 941912685
   @@ "worker_47976-2"  :> 1866067656
   @@ "worker_479079-0" :> 362718191  @@ "worker_479079-1" :> 1903071728
   @@ "worker_479079-2" :> 1081130032
   @@ "worker_17-0"     :> 1902621908 @@ "worker_17-1"     :> 264731326
   @@ "worker_17-2"     :> 1293150994
   @@ "vec_10" :> 49781454   @@ "vec_20" :> 314371168
   @@ "vec_0"  :> 622356705  @@ "vec_8"  :> 2007211688 )

\* ConsistentHasher._hash
_hash(key) == Sha1Low32[key]

(***************************************************************************)
(* Vectors: Vector(id, data).  Each vector id is used with one coordinate  *)
(* list, so a vector stands for its JSON form as well.  The names the      *)
(* sources use in annotations without importing them (Optional, Any, Set)  *)
(* are taken as bound; common/models.py calls logger.warning without       *)
(* importing logger, and that call raises NameError.                       *)
(***************************************************************************)
Vector(id, data) == [id |-> id, data |-> data]

Vectors ==
    { Vector("vec_20", <<4>>), Vector("vec_0", <<2>>), Vector("vec_8", <<3, 0>>) }

\* Vector.dim
dim(v) == Len(v.data)

(***************************************************************************)
(* ConsistentHasher.  A hasher is a record                                 *)
(*   ring     : the sorted list of hash points                             *)
(*   node_map : dict hash point -> node name                               *)
(*   nodes    : the set of keys of the dict `nodes`                        *)
(***************************************************************************)
EmptyHasher == [ring |-> <<>>, node_map |-> <<>>, nodes |-> {}]

\* bisect.bisect_left(a, x, lo, hi): the binary search of the standard library
RECURSIVE bisect_search(_, _, _, _)
bisect_search(a, x, lo, hi) ==
    IF lo < hi
    THEN LET mid == (lo + hi) \div 2
         IN  IF a[mid + 1] < x          \* a[mid], 0-based
             THEN bisect_search(a, x, mid + 1, hi)
             ELSE bisect_search(a, x, lo, mid)
    ELSE lo

bisect_left(a, x) == bisect_search(a, x, 0, Len(a))

\* ascending
IsSorted(a) == \A i \in 1..(Len(a) - 1) : a[i] <= a[i + 1]

\* list.insert(idx, x), idx 0-based
ListInsert(a, idx, x) ==
    SubSeq(a, 1, idx) \o <<x>> \o SubSeq(a, idx + 1, Len(a))

\* list.remove(x): drops the first occurrence of x
ListRemove(a, x) ==
    IF \E j \in 1..Len(a) : a[j] = x
    THEN LET j == CHOOSE j \in 1..Len(a) :
                     a[j] = x /\ \A l \in 1..(j - 1) : a[l] # x
         IN  SubSeq(a, 1, j - 1) \o SubSeq(a, j + 1, Len(a))
    ELSE a

\* dict[k] = v
DictSet(d, k, v) == [p \in (DOMAIN d) \cup {k} |-> IF p = k THEN v ELSE d[p]]

\* del dict[k]
DictDel(d, k) == [p \in (DOMAIN d) \ {k} |-> d[p]]

\* a turn of the loop that puts the point at the end of the list
add_replica_append(h, node_name, i) ==
    LET hash_point == _hash(VirtualKey(node_name, i))
    IN  [h EXCEPT !.ring     = Append(h.ring, hash_point),
                  !.node_map = DictSet(h.node_map, hash_point, node_name)]

\* one turn of the loop of add_node: virtual point i of node_name
add_replica(h, node_name, i) ==
    LET hash_point == _hash(VirtualKey(node_name, i))
        idx        == bisect_left(h.ring, hash_point)
    IN  [h EXCEPT !.ring     = ListInsert(h.ring, idx, hash_point),
                  !.node_map = DictSet(h.node_map, hash_point, node_name)]

\* for i in range(self.replicas), from turn i on
RECURSIVE add_replicas(_, _, _)
add_replicas(h, node_name, i) ==
    IF i < Replicas
    THEN add_replicas(add_replica(h, node_name, i), node_name, i + 1)
    ELSE h

\* ConsistentHasher.add_node: warns and returns when the node is known
add_node(h, node_name) ==
    IF node_name \in h.nodes
    THEN h
    ELSE add_replicas([h EXCEPT !.nodes = h.nodes \cup {node_name}], node_name, 0)

\* the second loop of remove_node over points_to_remove; each turn removes
\* the first occurrence of the point from the ring and the point's dict
\* entry, so the outcome does not depend on the order of the turns
RECURSIVE remove_points(_, _)
remove_points(h, points_to_remove) ==
    IF points_to_remove = {}
    THEN h
    ELSE LET hash_point == CHOOSE p \in points_to_remove : TRUE
         IN  remove_points(
                 [h EXCEPT !.ring     = ListRemove(h.ring, hash_point),
                           !.node_map = DictDel(h.node_map, hash_point)],
                 points_to_remove \ {hash_point})

\* a remove_node that finds the points by hashing the node's virtual keys
\* again, whoever owns them now
remove_node_rehash(h, node_name) ==
    IF node_name \notin h.nodes
    THEN h
    ELSE remove_points(
             [h EXCEPT !.nodes = h.nodes \ {node_name}],
             {_hash(VirtualKey(node_name, i)) : i \in 0..(Replicas - 1)}
                 \cap DOMAIN h.node_map)

\* ConsistentHasher.remove_node: warns and returns when the node is unknown
remove_node(h, node_name) ==
    IF node_name \notin h.nodes
    THEN h
    ELSE remove_points(
             [h EXCEPT !.nodes = h.nodes \ {node_name}],
             {p \in DOMAIN h.node_map : h.node_map[p] = node_name})

\* ConsistentHasher.get_node: None on an empty ring; self.node_map[...]
\* raises KeyError when the point found has no dict entry
get_node(h, key) ==
    IF Len(h.ring) = 0
    THEN None
    ELSE LET key_hash == _hash(key)
             idx0     == bisect_left(h.ring, key_hash)
             idx      == IF idx0 = Len(h.ring) THEN 0 ELSE idx0
             assigned_hash_point == h.ring[idx + 1]
         IN  IF assigned_hash_point \in DOMAIN h.node_map
             THEN h.node_map[assigned_hash_point]
             ELSE "KeyError"

(***************************************************************************)
(* State                                                                   *)
(***************************************************************************)
VARIABLES
    consistent_hasher,  \* the ConsistentHasher (of the coordinator)
    ring_call,          \* the last call on the ring: op, arg, ret, before
    answers,            \* key -> the answers of get_node since the last mutation
    ring_ops,           \* add_node / remove_node calls made so far
    worker_nodes,       \* OrchestratorService.worker_nodes, in dict order
    node_lock,          \* the thread holding OrchestratorService.node_lock
    pc,                 \* handler thread -> where it stands in its call
    call,               \* handler thread -> its current (or last) call
    calls,              \* calls started so far
    m_tree,             \* worker process (url) -> the vectors its tree stores
    http,               \* POST /insert requests sent and not yet answered
    accepted,           \* insert_vector calls that returned True
    late_applied,       \* inserts a worker applied for a call that timed out
    w_tree,             \* one worker's metric tree: its root node
    w_pc,               \* worker handler thread -> where it stands in its call
    w_call,             \* worker handler thread -> its current (or last) call
    w_done,             \* the vectors whose insert has returned success
    w_calls             \* calls (or inserts) the worker has started so far

ringVars == <<consistent_hasher, ring_call, answers, ring_ops>>

coordVars == <<worker_nodes, node_lock, pc, call, calls, m_tree, http,
               accepted, late_applied>>

workerVars == <<w_tree, w_pc, w_call, w_done, w_calls>>

vars == <<consistent_hasher, ring_call, answers, ring_ops,
          worker_nodes, node_lock, pc, call, calls, m_tree, http,
          accepted, late_applied, w_tree, w_pc, w_call, w_done, w_calls>>

\* the handler threads of the coordinator's Flask server: one per request
\* being served; a new request is given the first free one
ThreadOrder == <<"t1", "t2">>
Threads == {ThreadOrder[i] : i \in DOMAIN ThreadOrder}

\* the worker processes, named by the url each listens on
Urls == {"http://localhost:7001", "http://localhost:7002"}

NoCoordCall ==
    [op |-> "none", status |-> 0, node_id |-> None, node_url |-> None,
     vector |-> None, target_node_id |-> None, target_node_url |-> None,
     posts |-> <<>>, ret |-> None,
     k |-> 0, active_workers |-> <<>>, all_results |-> <<>>,
     unique_result_ids |-> {}, responses |-> <<>>, failed |-> 0,
     raised |-> None, results |-> <<>>]

\* the coordinator and the workers after construction
CoordStart ==
    /\ worker_nodes = <<>>
    /\ node_lock = None
    /\ pc = [t \in Threads |-> "idle"]
    /\ call = [t \in Threads |-> NoCoordCall]
    /\ calls = 0
    /\ m_tree = [u \in Urls |-> <<>>]
    /\ http = {}
    /\ accepted = 0
    /\ late_applied = 0

\* per key: the calls of get_node since the last add_node / remove_node
\* (counted up to 2) and the answers they gave
NoAnswers == [k \in Keys |-> [n |-> 0, rets |-> {}]]

NoCall == [op |-> "none", arg |-> None, ret |-> None, before |-> EmptyHasher]


(***************************************************************************)
(* The coordinator: OrchestratorService behind its Flask handlers, which   *)
(* run on threads.  A thread's step is one statement on the shared state;  *)
(* add_node, remove_node and get_node are each taken as one step.          *)
(***************************************************************************)
\* key in self.worker_nodes
Registered(d, node_id) == \E i \in 1..Len(d) : d[i].node_id = node_id

\* self.worker_nodes.get(key)
WorkerUrl(d, node_id) ==
    IF Registered(d, node_id)
    THEN d[CHOOSE i \in 1..Len(d) : d[i].node_id = node_id].node_url
    ELSE None

\* a registry that files a known id once more instead of replacing its url
SetWorker_append(d, node_id, node_url) ==
    Append(d, [node_id |-> node_id, node_url |-> node_url])

\* self.worker_nodes[key] = url: a known key keeps its place, a new one is last
SetWorker(d, node_id, node_url) ==
    IF Registered(d, node_id)
    THEN [i \in 1..Len(d) |->
             IF d[i].node_id = node_id
             THEN [node_id |-> node_id, node_url |-> node_url]
             ELSE d[i]]
    ELSE Append(d, [node_id |-> node_id, node_url |-> node_url])

\* del self.worker_nodes[key]
DelWorker(d, node_id) == SelectSeq(d, LAMBDA e : e.node_id # node_id)

\* orchestrator/app.py: the status the handler of `op` answers with when the
\* service returned True (ok) or False
HandlerStatus(op, ok) ==
    CASE op = "register_worker"   -> IF ok THEN 200 ELSE 500
      [] op = "deregister_worker" -> IF ok THEN 200 ELSE 500
      [] op = "insert_vector"     -> IF ok THEN 202 ELSE 500

\* the service returns `value` and the handler answers; of the call the
\* model keeps what it was, the ring's answer, what it returned and the status
Return(t, value) ==
    /\ pc' = [pc EXCEPT ![t] = "idle"]
    /\ call' = [call EXCEPT ![t] =
                   [NoCoordCall EXCEPT !.op = call[t].op,
                                       !.target_node_id = call[t].target_node_id,
                                       !.ret = value,
                                       !.status = HandlerStatus(call[t].op, value)]]

\* the exception `exc` leaves the service and the handler, which catches
\* nothing around the call: Flask answers 500
Raise(t, exc) ==
    /\ pc' = [pc EXCEPT ![t] = "idle"]
    /\ call' = [call EXCEPT ![t] =
                   [NoCoordCall EXCEPT !.op = call[t].op,
                                       !.target_node_id = call[t].target_node_id,
                                       !.ret = exc,
                                       !.status = 500]]

\* the search c returns `results` (the handler answers 200), or `raised`
\* leaves it (the handler's except branch answers 500); of the call the model
\* keeps k, what the workers answered, how many failed and the outcome
SearchReturn(t, c, raised, results) ==
    /\ pc' = [pc EXCEPT ![t] = "idle"]
    /\ call' = [call EXCEPT ![t] =
                   [NoCoordCall EXCEPT !.op = c.op,
                                       !.k = c.k,
                                       !.responses = c.responses,
                                       !.failed = c.failed,
                                       !.raised = raised,
                                       !.results = results,
                                       !.status = IF raised = None
                                                  THEN 200 ELSE 500]]

Start(t, label, c) ==
    /\ pc[t] = "idle"
    /\ \E i \in DOMAIN ThreadOrder :
          /\ ThreadOrder[i] = t
          /\ \A j \in 1..(i - 1) : pc[ThreadOrder[j]] # "idle"
    /\ calls < MaxCalls
    /\ calls' = calls + 1
    /\ pc' = [pc EXCEPT ![t] = label]
    /\ call' = [call EXCEPT ![t] = c]

\* a coordinator step leaves the log of ring calls and the worker's tree alone
ringLogUnchanged ==
    UNCHANGED <<ring_call, answers, ring_ops>> /\ UNCHANGED workerVars

\* --- register_worker(node_id, node_url)
RegisterCall(t, node_id, node_url) ==
    /\ Start(t, "register_lock",
             [NoCoordCall EXCEPT !.op = "register_worker",
                                 !.node_id = node_id, !.node_url = node_url])
    /\ UNCHANGED <<consistent_hasher, worker_nodes, node_lock, m_tree, http,
                   accepted, late_applied>>
    /\ ringLogUnchanged

\* with self.node_lock: the registry is written; a known id returns at once
RegisterLocked(t) ==
    /\ pc[t] = "register_lock"
    /\ node_lock = None
    /\ worker_nodes' = SetWorker(worker_nodes, call[t].node_id, call[t].node_url)
    /\ IF Registered(worker_nodes, call[t].node_id)
       THEN /\ Return(t, TRUE)
            /\ UNCHANGED node_lock
       ELSE /\ node_lock' = t
            /\ pc' = [pc EXCEPT ![t] = "register_add_node"]
            /\ UNCHANGED call
    /\ UNCHANGED <<consistent_hasher, calls, m_tree, http, accepted, late_applied>>
    /\ ringLogUnchanged

\* self.consistent_hasher.add_node(node_id); return True, leaving the lock
RegisterAddNode(t) ==
    /\ pc[t] = "register_add_node"
    /\ consistent_hasher' = add_node(consistent_hasher, call[t].node_id)
    /\ node_lock' = None
    /\ Return(t, TRUE)
    /\ UNCHANGED <<worker_nodes, calls, m_tree, http, accepted, late_applied>>
    /\ ringLogUnchanged

\* --- deregister_worker(node_id)
DeregisterCall(t, node_id) ==
    /\ Start(t, "deregister_lock",
             [NoCoordCall EXCEPT !.op = "deregister_worker", !.node_id = node_id])
    /\ UNCHANGED <<consistent_hasher, worker_nodes, node_lock, m_tree, http,
                   accepted, late_applied>>
    /\ ringLogUnchanged

\* with self.node_lock: an unknown id returns False, a known one is deleted
DeregisterLocked(t) ==
    /\ pc[t] = "deregister_lock"
    /\ node_lock = None
    /\ IF ~Registered(worker_nodes, call[t].node_id)
       THEN /\ Return(t, FALSE)
            /\ UNCHANGED <<worker_nodes, node_lock>>
       ELSE /\ worker_nodes' = DelWorker(worker_nodes, call[t].node_id)
            /\ node_lock' = t
            /\ pc' = [pc EXCEPT ![t] = "deregister_remove_node"]
            /\ UNCHANGED call
    /\ UNCHANGED <<consistent_hasher, calls, m_tree, http, accepted, late_applied>>
    /\ ringLogUnchanged

\* a deregister_worker that also empties the workers' trees
DeregisterRemoveNode_clearing(t) ==
    /\ pc[t] = "deregister_remove_node"
    /\ consistent_hasher' = remove_node(consistent_hasher, call[t].node_id)
    /\ node_lock' = None
    /\ Return(t, TRUE)
    /\ m_tree' = [u \in Urls |-> <<>>]
    /\ UNCHANGED <<worker_nodes, calls, http, accepted, late_applied>>
    /\ ringLogUnchanged

\* self.consistent_hasher.remove_node(node_id); return True, leaving the lock
DeregisterRemoveNode(t) ==
    /\ pc[t] = "deregister_remove_node"
    /\ consistent_hasher' = remove_node(consistent_hasher, call[t].node_id)
    /\ node_lock' = None
    /\ Return(t, TRUE)
    /\ UNCHANGED <<worker_nodes, calls, m_tree, http, accepted, late_applied>>
    /\ ringLogUnchanged

\* --- insert_vector(vector_data); it never takes node_lock
InsertCall(t, v) ==
    /\ Start(t, "insert_get_node",
             [NoCoordCall EXCEPT !.op = "insert_vector", !.vector = v])
    /\ UNCHANGED <<consistent_hasher, worker_nodes, node_lock, m_tree, http,
                   accepted, late_applied>>
    /\ ringLogUnchanged

\* target_node_id = self.consistent_hasher.get_node(vector_id); a KeyError
\* of get_node leaves insert_vector and the handler
InsertGetNode(t) ==
    /\ pc[t] = "insert_get_node"
    /\ LET target_node_id == get_node(consistent_hasher, call[t].vector.id)
       IN  CASE target_node_id = None -> Return(t, FALSE)
             [] target_node_id = "KeyError" -> Raise(t, "KeyError")
             [] OTHER ->
                  /\ pc' = [pc EXCEPT ![t] = "insert_lookup"]
                  /\ call' = [call EXCEPT ![t].target_node_id = target_node_id]
    /\ UNCHANGED <<consistent_hasher, worker_nodes, node_lock, calls, m_tree,
                   http, accepted, late_applied>>
    /\ ringLogUnchanged

\* target_node_url = self.worker_nodes.get(target_node_id)
InsertLookup(t) ==
    /\ pc[t] = "insert_lookup"
    /\ LET target_node_url == WorkerUrl(worker_nodes, call[t].target_node_id)
       IN  /\ call' = [call EXCEPT ![t].target_node_url = target_node_url]
           /\ pc' = [pc EXCEPT ![t] = IF target_node_url = None
                                      THEN "insert_remove_node"
                                      ELSE "insert_post"]
    /\ UNCHANGED <<consistent_hasher, worker_nodes, node_lock, calls, m_tree,
                   http, accepted, late_applied>>
    /\ ringLogUnchanged

\* no url: self.consistent_hasher.remove_node(target_node_id); return False
InsertRemoveNode(t) ==
    /\ pc[t] = "insert_remove_node"
    /\ consistent_hasher' = remove_node(consistent_hasher, call[t].target_node_id)
    /\ Return(t, FALSE)
    /\ UNCHANGED <<worker_nodes, node_lock, calls, m_tree, http, accepted,
                   late_applied>>
    /\ ringLogUnchanged

\* an insert_vector that posts again after the first post (a retry)
insert_destinations_retry(c) == <<c.target_node_url, c.target_node_url>>

\* the urls insert_vector posts the vector to
insert_destinations(c) == <<c.target_node_url>>

\* requests.post(f"{target_node_url}/insert", ..., timeout=5) is sent
InsertPost(t) ==
    /\ pc[t] = "insert_post"
    /\ LET to == insert_destinations(call[t])
       IN  /\ call' = [call EXCEPT ![t].posts = @ \o to]
           /\ http' = http \cup
                  {[from |-> t, url |-> to[i], vector |-> call[t].vector,
                    status |-> "sent", abandoned |-> FALSE] : i \in 1..Len(to)}
    /\ pc' = [pc EXCEPT ![t] = "insert_wait"]
    /\ UNCHANGED <<consistent_hasher, worker_nodes, node_lock, calls, m_tree,
                   accepted, late_applied>>
    /\ ringLogUnchanged

\* requests.post raises ConnectionError: the request reaches no worker;
\* except RequestException: return False
InsertPostFails(t) ==
    /\ pc[t] = "insert_post"
    /\ Return(t, FALSE)
    /\ UNCHANGED <<consistent_hasher, worker_nodes, node_lock, calls, m_tree,
                   http, accepted, late_applied>>
    /\ ringLogUnchanged

(***************************************************************************)
(* A worker process: POST /insert -> WorkerService.insert_vector ->        *)
(* MTree.insert.  Here a tree is the list of the vectors it stores.        *)
(***************************************************************************)
\* MTree.insert (src/m_tree/m_tree.py is not part of the sources): a vector
\* whose dimension differs from the tree's raises and leaves the tree alone
MTree_insert(tree, v) ==
    IF Len(tree) > 0 /\ dim(v) # dim(tree[1])
    THEN [tree |-> tree, raised |-> TRUE]
    ELSE [tree |-> Append(tree, v), raised |-> FALSE]

\* WorkerService.insert_vector: True, or False when the tree raised
WorkerService_insert_vector(tree, vector_data) ==
    LET r == MTree_insert(tree, vector_data)
    IN  [tree |-> r.tree, ret |-> ~r.raised]

\* worker_node/app.py insert_vector: 201 on True, 500 on False
WorkerInsert(req) ==
    /\ req \in http
    /\ req.status = "sent"
    /\ LET r == WorkerService_insert_vector(m_tree[req.url], req.vector)
       IN  /\ m_tree' = [m_tree EXCEPT ![req.url] = r.tree]
           /\ IF req.abandoned
              THEN /\ http' = http \ {req}
                   /\ late_applied' = late_applied + (IF r.ret THEN 1 ELSE 0)
              ELSE /\ http' = (http \ {req}) \cup
                          {[req EXCEPT !.status = IF r.ret THEN "201" ELSE "500"]}
                   /\ UNCHANGED late_applied
    /\ UNCHANGED <<consistent_hasher, worker_nodes, node_lock, pc, call, calls,
                   accepted>>
    /\ ringLogUnchanged

\* the response arrives: raise_for_status() turns the 500 into an HTTPError
\* (return False); otherwise return response.json().get("status") == "success"
InsertResponse(t) ==
    /\ pc[t] = "insert_wait"
    /\ \E req \in http :
         /\ req.from = t /\ ~req.abandoned
         /\ req.status # "sent"
         /\ http' = http \ {req}
         /\ Return(t, req.status = "201")
         /\ accepted' = accepted + (IF req.status = "201" THEN 1 ELSE 0)
    /\ UNCHANGED <<consistent_hasher, worker_nodes, node_lock, calls, m_tree,
                   late_applied>>
    /\ ringLogUnchanged

\* no response within timeout=5: requests raises Timeout, return False; the
\* worker may still handle the request
InsertTimeout(t) ==
    /\ pc[t] = "insert_wait"
    /\ \E req \in http :
         /\ req.from = t /\ ~req.abandoned
         /\ IF req.status = "sent"
            THEN /\ http' = (http \ {req}) \cup {[req EXCEPT !.abandoned = TRUE]}
                 /\ UNCHANGED late_applied
            ELSE /\ http' = http \ {req}
                 /\ late_applied' = late_applied + (IF req.status = "201" THEN 1 ELSE 0)
    /\ Return(t, FALSE)
    /\ UNCHANGED <<consistent_hasher, worker_nodes, node_lock, calls, m_tree,
                   accepted>>
    /\ ringLogUnchanged

(***************************************************************************)
(* The fan-out of search_knn and search_range.  What a worker's tree finds *)
(* is left open: a worker answers with one of the result lists of Answers, *)
(* or fails.  Distances are integers.                                      *)
(***************************************************************************)
SearchResult(vector, distance) == [vector |-> vector, distance |-> distance]

\* SearchResult.to_dict; vector_data_snippet is the first five coordinates
\* followed by '...' (more) when there are more than five
SearchResult_to_dict(r) ==
    [vector_id |-> r.vector.id,
     distance  |-> r.distance,
     vector_data_snippet |->
         IF Len(r.vector.data) > 5
         THEN [head |-> SubSeq(r.vector.data, 1, 5), more |-> TRUE]
         ELSE [head |-> r.vector.data, more |-> FALSE]]

\* SearchResult.from_dict: on a snippet holding '...' it calls logger.warning,
\* and logger is not a name of common/models.py: NameError
from_dict_raises(d) == d.vector_data_snippet.more

\* SearchResult.from_dict on a snippet that is the whole vector
SearchResult_from_dict(d) ==
    SearchResult(Vector(d.vector_id, d.vector_data_snippet.head), d.distance)

\* the result lists a worker answers a search with, ascending by distance;
\* two workers may hold vectors of one id (vec_0), and vectors of two ids at
\* one distance (vec_0 and vec_8)
Answers ==
    LET d(id, data, distance) ==
            SearchResult_to_dict(SearchResult(Vector(id, data), distance))
    IN  { <<>>,
          << d("vec_0", <<3>>, 1) >>,
          << d("vec_8", <<5>>, 1) >>,
          << d("vec_20", <<4>>, 0), d("vec_0", <<7>>, 3) >>,
          << d("vec_10", <<1, 0, 0, 0, 0, 0>>, 0) >> }

\* the values of k the clients ask for
Ks == {1, 2}

\* list.sort(key=lambda x: x.distance): stable, ascending
InsertSorted(sorted, r) ==
    LET n == Cardinality({i \in 1..Len(sorted) : sorted[i].distance <= r.distance})
    IN  SubSeq(sorted, 1, n) \o <<r>> \o SubSeq(sorted, n + 1, Len(sorted))

RECURSIVE sort_by_distance(_)
sort_by_distance(a) ==
    IF a = <<>>
    THEN <<>>
    ELSE InsertSorted(sort_by_distance(SubSeq(a, 1, Len(a) - 1)), a[Len(a)])

\* a[:k]
Slice(a, k) ==
    IF k >= 0
    THEN SubSeq(a, 1, IF k < Len(a) THEN k ELSE Len(a))
    ELSE SubSeq(a, 1, Len(a) + k)

\* [res.to_dict() for res in a]
to_dicts(a) == [i \in 1..Len(a) |-> SearchResult_to_dict(a[i])]

\* a range merge that appends every result, seen before or not
range_extend_all(acc, dicts) ==
    IF \E i \in 1..Len(dicts) : from_dict_raises(dicts[i])
    THEN [acc EXCEPT !.raised = "NameError"]
    ELSE [acc EXCEPT !.all_results =
              @ \o [i \in 1..Len(dicts) |-> SearchResult_from_dict(dicts[i])]]

\* search_range's loop over one worker's results: a result whose id was not
\* seen before is parsed and appended
RECURSIVE range_extend(_, _)
range_extend(acc, dicts) ==
    IF dicts = <<>> \/ acc.raised # None
    THEN acc
    ELSE LET d == Head(dicts)
         IN  IF d.vector_id \in acc.unique_result_ids
             THEN range_extend(acc, Tail(dicts))
             ELSE IF from_dict_raises(d)
                  THEN [acc EXCEPT !.raised = "NameError"]
                  ELSE range_extend(
                           [acc EXCEPT
                               !.all_results = Append(@, SearchResult_from_dict(d)),
                               !.unique_result_ids = @ \cup {d.vector_id}],
                           Tail(dicts))

\* search_knn's step for one worker's results: all are parsed, then appended
knn_extend(acc, dicts) ==
    IF \E i \in 1..Len(dicts) : from_dict_raises(dicts[i])
    THEN [acc EXCEPT !.raised = "NameError"]
    ELSE [acc EXCEPT !.all_results =
              @ \o [i \in 1..Len(dicts) |-> SearchResult_from_dict(dicts[i])]]

searchFrame ==
    /\ UNCHANGED <<consistent_hasher, worker_nodes, node_lock, m_tree, http,
                   accepted, late_applied>>
    /\ ringLogUnchanged

\* --- search_knn(query_vector_data, k)
SearchKnnCall(t, k) ==
    /\ Start(t, "search_snapshot",
             [NoCoordCall EXCEPT !.op = "search_knn", !.k = k])
    /\ searchFrame

\* --- search_range(query_vector_data, radius)
SearchRangeCall(t) ==
    /\ Start(t, "search_snapshot", [NoCoordCall EXCEPT !.op = "search_range"])
    /\ searchFrame

\* a snapshot taken by a search that takes node_lock and keeps it while it
\* contacts the workers
SearchSnapshot_holding_lock(t) ==
    /\ pc[t] = "search_snapshot"
    /\ node_lock = None
    /\ node_lock' = t
    /\ pc' = [pc EXCEPT ![t] = "search_loop"]
    /\ call' = [call EXCEPT ![t].active_workers = worker_nodes]
    /\ UNCHANGED <<consistent_hasher, worker_nodes, calls, m_tree, http,
                   accepted, late_applied>>
    /\ ringLogUnchanged

\* active_workers = list(self.worker_nodes.items()); node_lock is not taken
SearchSnapshot(t) ==
    /\ pc[t] = "search_snapshot"
    /\ pc' = [pc EXCEPT ![t] = "search_loop"]
    /\ call' = [call EXCEPT ![t].active_workers = worker_nodes]
    /\ UNCHANGED calls
    /\ searchFrame

\* the next worker answers 200 with the results `dicts`
SearchWorkerAnswers(t, dicts) ==
    /\ pc[t] = "search_loop"
    /\ call[t].active_workers # <<>>
    /\ LET w == Head(call[t].active_workers)
           c == [call[t] EXCEPT
                    !.active_workers = Tail(@),
                    !.responses = Append(@, [node_id |-> w.node_id,
                                             results |-> dicts])]
           after == IF c.op = "search_knn"
                    THEN knn_extend(c, dicts)
                    ELSE range_extend(c, dicts)
       IN  IF after.raised # None
           THEN SearchReturn(t, c, after.raised, <<>>)
           ELSE /\ call' = [call EXCEPT ![t] = after]
                /\ UNCHANGED pc
    /\ UNCHANGED calls
    /\ searchFrame

\* the next worker fails: connection error, timeout (timeout=10) or a 4xx/5xx
\* status; except RequestException: the error is logged, the loop goes on
SearchWorkerFails(t) ==
    /\ pc[t] = "search_loop"
    /\ call[t].active_workers # <<>>
    /\ call' = [call EXCEPT ![t].active_workers = Tail(@),
                            ![t].failed = @ + 1]
    /\ UNCHANGED <<pc, calls>>
    /\ searchFrame

\* after the loop: sort by distance; search_knn keeps all_results[:k]
SearchMerge(t) ==
    /\ pc[t] = "search_loop"
    /\ call[t].active_workers = <<>>
    /\ LET sorted == sort_by_distance(call[t].all_results)
           final  == IF call[t].op = "search_knn"
                     THEN Slice(sorted, call[t].k)
                     ELSE sorted
       IN  SearchReturn(t, call[t], None, to_dicts(final))
    /\ UNCHANGED calls
    /\ searchFrame

(***************************************************************************)
(* The metric tree.  src/m_tree/m_tree.py is not part of the sources; the  *)
(* tree is modelled from the design (its insertion algorithm, split and    *)
(* searches) over the node classes of src/m_tree/node.py.                  *)
(*   node  : [is_leaf, entries]                                            *)
(*   entry : [obj, radius, dtp] in a leaf (obj is the data vector),        *)
(*           [obj, radius, dtp, child, detached] in an internal node       *)
(* dtp is distance_to_parent (-1 where it is undefined); `detached` marks  *)
(* an entry whose node a split has deleted and not yet replaced.           *)
(* Vectors have one coordinate, an integer, and ids ordered as the         *)
(* coordinates are.                                                        *)
(***************************************************************************)
\* min_children of the metric tree
MinChildren == 2

\* the distance that stands for infinity
Inf == 1000

\* the vectors inserted into a tree
TreeVectors == { Vector("p0", <<0>>), Vector("p1", <<1>>), Vector("p3", <<3>>) }

\* the routing object of the parent of the root's entries: there is none
NoParent == Vector(None, <<>>)

\* euclidean_distance, for vectors of one integer coordinate
euclidean_distance(a, b) ==
    LET x == a.data[1] - b.data[1]
    IN  IF x >= 0 THEN x ELSE 0 - x

\* distance_to_parent of an entry with routing object o under parent p
DistToParent(o, p) == IF p.id = None THEN 0 - 1 ELSE euclidean_distance(o, p)

Max(S) == CHOOSE x \in S : \A y \in S : y <= x

Min(S) == CHOOSE x \in S : \A y \in S : x <= y

\* MTreeLeafNode(tree) / MTreeInternalNode(tree) with the given entries
MTreeNode(is_leaf, entries) == [is_leaf |-> is_leaf, entries |-> entries]

\* the tree before the first insert
EmptyTree == MTreeNode(TRUE, <<>>)

\* an add_entry that updates in place: an entry of the same id is replaced
add_entry_update(node, entry) ==
    IF \E i \in 1..Len(node.entries) : node.entries[i].obj.id = entry.obj.id
    THEN [node EXCEPT !.entries =
             [i \in 1..Len(@) |-> IF @[i].obj.id = entry.obj.id THEN entry ELSE @[i]]]
    ELSE [node EXCEPT !.entries = Append(@, entry)]

\* MTreeNode.add_entry
add_entry(node, entry) == [node EXCEPT !.entries = Append(@, entry)]

\* an overflow test that is MTreeNode.is_full: MAX_CHILDREN entries suffice
Overflows_is_full(node) == Len(node.entries) >= MaxChildren

\* the node holds more than MAX_CHILDREN entries
Overflows(node) == Len(node.entries) > MaxChildren

\* the data vectors reachable from a node, in order
RECURSIVE DataOf(_)
RECURSIVE DataOfEntries(_)
DataOf(node) ==
    IF node.is_leaf
    THEN [i \in 1..Len(node.entries) |-> node.entries[i].obj]
    ELSE DataOfEntries(node.entries)

DataOfEntries(entries) ==
    IF entries = <<>>
    THEN <<>>
    ELSE (IF Head(entries).detached THEN <<>> ELSE DataOf(Head(entries).child))
         \o DataOfEntries(Tail(entries))

\* size(): the count of stored data vectors
size(node) == Len(DataOf(node))

\* the least radius around o that covers what `entry` reaches
Reach(o, entry, is_leaf) ==
    IF is_leaf
    THEN euclidean_distance(o, entry.obj)
    ELSE LET data == DataOf(entry.child)
         IN  Max({euclidean_distance(o, data[i]) : i \in 1..Len(data)} \cup {0})

\* a covering radius that looks at the first entry of the side only
SideRadius_first(o, side, is_leaf) ==
    IF side = <<>> THEN 0 ELSE Reach(o, side[1], is_leaf)

\* the tight covering radius of o over the entries of one side
SideRadius(o, side, is_leaf) ==
    Max({Reach(o, side[i], is_leaf) : i \in 1..Len(side)} \cup {0})

\* leaf selection at an internal node: the index of the entry to descend into
ChooseSubtree(entries, q) ==
    LET live   == {i \in 1..Len(entries) : ~entries[i].detached}
        dist(i) == euclidean_distance(q, entries[i].obj)
        inside == {i \in live : dist(i) <= entries[i].radius}
        grow(i) == dist(i) - entries[i].radius
    IN  IF inside # {}
        THEN Min({i \in inside : \A j \in inside : dist(i) <= dist(j)})
        ELSE Min({i \in live : \A j \in live :
                     \/ grow(i) < grow(j)
                     \/ grow(i) = grow(j) /\ dist(i) <= dist(j)})

\* leaf selection finds a leaf: no node on the way has all its entries detached
RECURSIVE CanDescend(_, _)
CanDescend(node, q) ==
    \/ node.is_leaf
    \/ /\ \E i \in 1..Len(node.entries) : ~node.entries[i].detached
       /\ CanDescend(node.entries[ChooseSubtree(node.entries, q)].child, q)

\* leaf selection and leaf insertion: q is appended to the leaf as an entry of
\* radius 0; p is the routing object of the entry that owns `node`
RECURSIVE AppendToLeaf(_, _, _)
AppendToLeaf(node, q, p) ==
    IF node.is_leaf
    THEN add_entry(node, [obj |-> q, radius |-> 0, dtp |-> DistToParent(q, p)])
    ELSE LET i == ChooseSubtree(node.entries, q)
         IN  [node EXCEPT !.entries[i].child =
                 AppendToLeaf(@, q, node.entries[i].obj)]

\* s <= t in the lexicographic order of tuples of integers of one length
LexLeq(s, t) ==
    \E n \in 1..(Len(s) + 1) :
        /\ \A m \in 1..(n - 1) : s[m] = t[m]
        /\ n = Len(s) + 1 \/ s[n] < t[n]

\* generalized hyperplane partitioning around the promoted entries i and j:
\* each other entry goes to the side of the closer one; ties go to the side
\* with fewer entries, then to side a
RECURSIVE Assign(_, _, _, _, _)
Assign(entries, i, j, k, st) ==
    IF k > Len(entries)
    THEN st
    ELSE IF k \in {i, j}
         THEN Assign(entries, i, j, k + 1, st)
         ELSE LET e  == entries[k]
                  da == euclidean_distance(e.obj, entries[i].obj)
                  db == euclidean_distance(e.obj, entries[j].obj)
              IN  IF da < db \/ (da = db /\ Len(st.a) <= Len(st.b))
                  THEN Assign(entries, i, j, k + 1, [st EXCEPT !.a = Append(@, e)])
                  ELSE Assign(entries, i, j, k + 1, [st EXCEPT !.b = Append(@, e)])

\* one entry moves from the larger side to the smaller: the one that widens
\* the receiving side's radius least (the first of them)
MoveOne(from, to, is_leaf) ==
    LET r      == SideRadius(to[1].obj, to, is_leaf)
        inc(m) == LET x == Reach(to[1].obj, from[m], is_leaf) - r
                  IN  IF x > 0 THEN x ELSE 0
        cand   == 2..Len(from)
        m      == Min({c \in cand : \A o \in cand : inc(c) <= inc(o)})
    IN  [from |-> SubSeq(from, 1, m - 1) \o SubSeq(from, m + 1, Len(from)),
         to   |-> Append(to, from[m])]

\* a split that leaves the hyperplane partition as it is
Balance_none(st, is_leaf) == st

\* MIN_CHILDREN is enforced on both sides
RECURSIVE Balance(_, _)
Balance(st, is_leaf) ==
    IF Len(st.a) < MinChildren /\ Len(st.b) > MinChildren
    THEN LET Moved(mv) == Balance([a |-> mv.to, b |-> mv.from], is_leaf)
         IN  Moved(MoveOne(st.b, st.a, is_leaf))
    ELSE IF Len(st.b) < MinChildren /\ Len(st.a) > MinChildren
         THEN LET Moved(mv) == Balance([a |-> mv.from, b |-> mv.to], is_leaf)
              IN  Moved(MoveOne(st.a, st.b, is_leaf))
         ELSE st

\* the partition of the entries when entries i and j are promoted
Partition(entries, i, j, is_leaf) ==
    Balance(Assign(entries, i, j, 1,
                   [a |-> <<entries[i]>>, b |-> <<entries[j]>>]), is_leaf)

\* the entry a split puts into the parent for one side: the promoted routing
\* object o, the tight radius, and a new node of the same kind whose entries
\* have their distance_to_parent recomputed
SiblingEntry(o, side, is_leaf, p) ==
    [obj      |-> o,
     radius   |-> SideRadius(o, side, is_leaf),
     dtp      |-> DistToParent(o, p),
     child    |-> MTreeNode(is_leaf,
                      [m \in 1..Len(side) |->
                          [side[m] EXCEPT !.dtp = euclidean_distance(side[m].obj, o)]]),
     detached |-> FALSE]

\* split of an overflowing node (mM_RAD_2, minimum sum of radii, all pairs):
\* the two entries that take the node's place in its parent
Split(entries, is_leaf, p) ==
    LET pairs == {pr \in (1..Len(entries)) \X (1..Len(entries)) : pr[1] < pr[2]}
        Key(pr, h) ==
            LET ra == SideRadius(entries[pr[1]].obj, h.a, is_leaf)
                rb == SideRadius(entries[pr[2]].obj, h.b, is_leaf)
            IN  <<ra + rb, ra, rb, entries[pr[1]].obj.data[1],
                  entries[pr[2]].obj.data[1], pr[1], pr[2]>>
        Best(key) == CHOOSE pr \in pairs : \A o \in pairs : LexLeq(key[pr], key[o])
        Siblings(pr, h) ==
            << SiblingEntry(entries[pr[1]].obj, h.a, is_leaf, p),
               SiblingEntry(entries[pr[2]].obj, h.b, is_leaf, p) >>
        Promote(halves) ==
            LET best == Best([pr \in pairs |-> Key(pr, halves[pr])])
            IN  Siblings(best, halves[best])
    IN  Promote([pr \in pairs |-> Partition(entries, pr[1], pr[2], is_leaf)])

\* a split that hangs the two new nodes under the old entry, one level down
Replace_under(entry, pair) ==
    << [entry EXCEPT !.child = MTreeNode(FALSE, pair), !.detached = FALSE] >>

\* split, step Replace: in the parent the two new entries take the place of
\* the entry that referenced the old node
Replace(entry, pair) == pair

\* overflow, cascade and fix-up below a node: every overflowing node is split
\* and the covering radii on the way are widened
RECURSIVE RepairNode(_, _)
RECURSIVE RepairEntries(_, _)
RECURSIVE RepairEntry(_, _)
RepairNode(node, p) ==
    IF node.is_leaf
    THEN node
    ELSE [node EXCEPT !.entries = RepairEntries(node.entries, p)]

RepairEntries(entries, p) ==
    IF entries = <<>>
    THEN <<>>
    ELSE RepairEntry(Head(entries), p) \o RepairEntries(Tail(entries), p)

RepairEntry(entry, p) ==
    LET Fix(c) ==
            IF Overflows(c)
            THEN Replace(entry, Split(c.entries, c.is_leaf, p))
            ELSE << [entry EXCEPT
                        !.child = c,
                        !.radius = Max({@, SideRadius(entry.obj, c.entries, c.is_leaf)})] >>
    IN  Fix(RepairNode(entry.child, entry.obj))

\* the same at the root: a root that overflows gives a new internal root with
\* two entries, and the tree is one level higher
TreeRepair(root) ==
    LET Fix(r) ==
            IF Overflows(r)
            THEN MTreeNode(FALSE, Split(r.entries, r.is_leaf, NoParent))
            ELSE r
    IN  Fix(RepairNode(root, NoParent))

\* an insert that does not look at the dimension
insert_unchecked(root, v) ==
    [root |-> TreeRepair(AppendToLeaf(root, v, NoParent)), raised |-> FALSE]

\* insert(v): DimensionMismatch leaves the tree unchanged
insert(root, v) ==
    IF size(root) > 0 /\ dim(v) # dim(DataOf(root)[1])
    THEN [root |-> root, raised |-> TRUE]
    ELSE [root |-> TreeRepair(AppendToLeaf(root, v, NoParent)), raised |-> FALSE]

\* the depths of the leaves below a node that is at depth `depth`
RECURSIVE LeafDepths(_, _)
LeafDepths(node, depth) ==
    IF node.is_leaf
    THEN {depth}
    ELSE UNION {LeafDepths(node.entries[i].child, depth + 1) :
                   i \in 1..Len(node.entries)}

\* |x|
Abs(x) == IF x >= 0 THEN x ELSE 0 - x

\* range(q, r) below a node; dqp is d(q, routing object of the node's parent
\* entry), -1 at the root.  An entry is skipped without computing its distance
\* when the bound from distance_to_parent already excludes it.
RECURSIVE RangeNode(_, _, _, _)
RECURSIVE RangeEntries(_, _, _, _, _)
RangeNode(node, q, r, dqp) == RangeEntries(node.entries, node.is_leaf, q, r, dqp)

RangeEntries(entries, is_leaf, q, r, dqp) ==
    IF entries = <<>>
    THEN <<>>
    ELSE LET e    == Head(entries)
             d    == euclidean_distance(q, e.obj)
             rest == RangeEntries(Tail(entries), is_leaf, q, r, dqp)
         IN  IF is_leaf
             THEN IF dqp >= 0 /\ e.dtp >= 0 /\ Abs(dqp - e.dtp) > r
                  THEN rest
                  ELSE IF d <= r
                       THEN <<SearchResult(e.obj, d)>> \o rest
                       ELSE rest
             ELSE IF e.detached
                  THEN rest
                  ELSE IF dqp >= 0 /\ e.dtp >= 0 /\ Abs(dqp - e.dtp) > r + e.radius
                       THEN rest
                       ELSE IF d - e.radius > r
                            THEN rest
                            ELSE RangeNode(e.child, q, r, d) \o rest

\* search_knn / search_range raise ValueError for a query whose dimension is
\* not the dimension of the stored vectors: euclidean_distance refuses arrays
\* of different shapes
search_raises(root, q) == size(root) > 0 /\ dim(q) # dim(DataOf(root)[1])

\* a range search that leaves out the vectors at distance r exactly
search_range_open(root, q, r) ==
    LET Inside(res) == res.distance < r
    IN  SelectSeq(sort_by_distance(RangeNode(root, q, r, 0 - 1)), Inside)

\* range(q, r): every stored vector within r of q, ascending by distance
search_range(root, q, r) == sort_by_distance(RangeNode(root, q, r, 0 - 1))

\* a d_k that is the farthest distance found so far, also while fewer than k
Dk_eager(results, k) ==
    IF results = <<>> THEN Inf ELSE results[Len(results)].distance

\* d_k: the distance of the farthest of k results, infinite while fewer
Dk(results, k) ==
    IF Len(results) < k THEN Inf ELSE results[Len(results)].distance

\* k-NN at a leaf: an entry within d_k enters the results, the farthest leaves
RECURSIVE KnnLeaf(_, _, _, _, _)
KnnLeaf(results, entries, q, k, dqp) ==
    IF entries = <<>>
    THEN results
    ELSE LET e  == Head(entries)
             d  == euclidean_distance(q, e.obj)
             dk == Dk(results, k)
         IN  IF dqp >= 0 /\ e.dtp >= 0 /\ Abs(dqp - e.dtp) > dk
             THEN KnnLeaf(results, Tail(entries), q, k, dqp)
             ELSE IF d <= dk
                  THEN KnnLeaf(Slice(InsertSorted(results, SearchResult(e.obj, d)), k),
                               Tail(entries), q, k, dqp)
                  ELSE KnnLeaf(results, Tail(entries), q, k, dqp)

\* k-NN at an internal node: the children that may hold a result, with their
\* lower bounds
RECURSIVE KnnPush(_, _, _, _)
KnnPush(entries, q, dk, dqp) ==
    IF entries = <<>>
    THEN <<>>
    ELSE LET e    == Head(entries)
             d    == euclidean_distance(q, e.obj)
             rest == KnnPush(Tail(entries), q, dk, dqp)
         IN  IF e.detached
             THEN rest
             ELSE IF dqp >= 0 /\ e.dtp >= 0 /\ Abs(dqp - e.dtp) > dk + e.radius
                  THEN rest
                  ELSE IF d - e.radius > dk
                       THEN rest
                       ELSE <<[lb   |-> IF d - e.radius > 0 THEN d - e.radius ELSE 0,
                               node |-> e.child,
                               dqp  |-> d]>> \o rest

\* branch and bound: the node of least lower bound is popped until that bound
\* exceeds d_k
RECURSIVE KnnLoop(_, _, _, _)
KnnLoop(results, frontier, q, k) ==
    IF frontier = <<>>
    THEN results
    ELSE LET i == Min({c \in 1..Len(frontier) :
                          \A o \in 1..Len(frontier) : frontier[c].lb <= frontier[o].lb})
             f == frontier[i]
             rest == SubSeq(frontier, 1, i - 1) \o SubSeq(frontier, i + 1, Len(frontier))
         IN  IF f.lb > Dk(results, k)
             THEN results
             ELSE IF f.node.is_leaf
                  THEN KnnLoop(KnnLeaf(results, f.node.entries, q, k, f.dqp), rest, q, k)
                  ELSE KnnLoop(results,
                               rest \o KnnPush(f.node.entries, q, Dk(results, k), f.dqp),
                               q, k)

\* a knn that keeps one result more than asked for
search_knn_one_more(root, q, k) ==
    IF k <= 0
    THEN <<>>
    ELSE KnnLoop(<<>>, <<[lb |-> 0, node |-> root, dqp |-> 0 - 1]>>, q, k + 1)

\* knn(q, k): at most min(k, size) results, ascending by distance
search_knn(root, q, k) ==
    IF k <= 0
    THEN <<>>
    ELSE KnnLoop(<<>>, <<[lb |-> 0, node |-> root, dqp |-> 0 - 1]>>, q, k)

(***************************************************************************)
(* A worker: the handlers of worker_node/app.py on the threads of Flask's  *)
(* server, WorkerService and its tree.  Neither the handlers nor           *)
(* WorkerService take a lock.  An insert changes the tree in steps: the    *)
(* leaf entry is appended; a node that overflows is deleted from its       *)
(* parent; the split halves are put in and the radii fixed.                *)
(***************************************************************************)
WThreadOrder == <<"h1", "h2">>
WThreads == {WThreadOrder[i] : i \in DOMAIN WThreadOrder}

\* what the clients of a worker insert and ask for
WorkerVectors == { Vector("p0", <<0>>), Vector("p3", <<3>>) }
QueryVectors == { Vector("q1", <<1>>) }
Radii == {1, 3}
WorkerKs == {1, MaxWCalls}

NoWorkerCall ==
    [op |-> "none", vector |-> NoParent, radius |-> 0, k |-> 0,
     done_at_start |-> {}, ok |-> FALSE, results |-> <<>>,
     raised |-> FALSE, status |-> 0]

\* some node below the root overflows
RECURSIVE OverflowBelow(_)
OverflowBelow(node) ==
    /\ ~node.is_leaf
    /\ \E i \in 1..Len(node.entries) :
          Overflows(node.entries[i].child) \/ OverflowBelow(node.entries[i].child)

\* split, step Replace, its first half: the overflowing nodes are deleted
\* from their parents
RECURSIVE Detach(_)
Detach(node) ==
    IF node.is_leaf
    THEN node
    ELSE [node EXCEPT !.entries =
             [i \in 1..Len(node.entries) |->
                 [node.entries[i] EXCEPT
                     !.detached = @ \/ Overflows(node.entries[i].child),
                     !.child = Detach(@)]]]

WStart(h, label, c) ==
    /\ w_pc[h] = "idle"
    /\ \E i \in DOMAIN WThreadOrder :
          /\ WThreadOrder[i] = h
          /\ \A j \in 1..(i - 1) : w_pc[WThreadOrder[j]] # "idle"
    /\ w_calls < MaxWCalls
    /\ w_calls' = w_calls + 1
    /\ w_pc' = [w_pc EXCEPT ![h] = label]
    /\ w_call' = [w_call EXCEPT ![h] = c]

\* the status a handler of worker_node/app.py answers with: /insert gives 201
\* when insert_vector returned True and 500 otherwise; /search/knn and
\* /search/range give 200 with the list WorkerService returned
Status(op, ok) == IF op = "insert" THEN (IF ok THEN 201 ELSE 500) ELSE 200

\* what WorkerService and the handler make of a call of the tree: `ok` is
\* False when the tree raised, which WorkerService catches
Answered(c, ok, results) ==
    [c EXCEPT !.ok = ok, !.raised = ~ok, !.results = results,
              !.status = Status(c.op, ok)]

WReturn(h, ok, results) ==
    /\ w_pc' = [w_pc EXCEPT ![h] = "idle"]
    /\ w_call' = [w_call EXCEPT ![h] = Answered(@, ok, results)]

workerFrame == UNCHANGED ringVars /\ UNCHANGED coordVars

\* --- POST /insert -> WorkerService.insert_vector(vector_data)
WInsertCall(h, v) ==
    /\ WStart(h, "insert_tree", [NoWorkerCall EXCEPT !.op = "insert", !.vector = v])
    /\ UNCHANGED <<w_tree, w_done>>
    /\ workerFrame

\* self.m_tree.insert(vector): leaf selection and leaf insertion; what the
\* tree raises makes insert_vector return False
WInsertAppend(h) ==
    /\ w_pc[h] = "insert_tree"
    /\ LET v == w_call[h].vector
       IN  IF \/ size(w_tree) > 0 /\ dim(v) # dim(DataOf(w_tree)[1])
              \/ ~CanDescend(w_tree, v)
           THEN /\ WReturn(h, FALSE, <<>>)
                /\ UNCHANGED w_tree
           ELSE /\ w_tree' = AppendToLeaf(w_tree, v, NoParent)
                /\ w_pc' = [w_pc EXCEPT ![h] = "insert_fixup"]
                /\ UNCHANGED w_call
    /\ UNCHANGED <<w_done, w_calls>>
    /\ workerFrame

\* a node below the root overflows: the split deletes it from its parent
WInsertDetach(h) ==
    /\ w_pc[h] = "insert_fixup"
    /\ OverflowBelow(w_tree)
    /\ w_tree' = Detach(w_tree)
    /\ w_pc' = [w_pc EXCEPT ![h] = "insert_replace"]
    /\ UNCHANGED <<w_call, w_done, w_calls>>
    /\ workerFrame

\* the split halves are put in, the radii are fixed; insert_vector returns True
WInsertRepair(h) ==
    /\ \/ w_pc[h] = "insert_replace"
       \/ w_pc[h] = "insert_fixup" /\ ~OverflowBelow(w_tree)
    /\ w_tree' = TreeRepair(w_tree)
    /\ w_done' = w_done \cup {w_call[h].vector.id}
    /\ WReturn(h, TRUE, <<>>)
    /\ UNCHANGED w_calls
    /\ workerFrame

\* --- POST /search/range -> WorkerService.search_range(query, radius)
WSearchRangeCall(h, q, r) ==
    /\ WStart(h, "search_traverse",
              [NoWorkerCall EXCEPT !.op = "search_range", !.vector = q,
                                   !.radius = r, !.done_at_start = w_done])
    /\ UNCHANGED <<w_tree, w_done>>
    /\ workerFrame

\* --- POST /search/knn -> WorkerService.search_knn(query, k)
WSearchKnnCall(h, q, k) ==
    /\ WStart(h, "search_traverse",
              [NoWorkerCall EXCEPT !.op = "search_knn", !.vector = q,
                                   !.k = k, !.done_at_start = w_done])
    /\ UNCHANGED <<w_tree, w_done>>
    /\ workerFrame

\* self.m_tree.search_knn / search_range reads the tree;
\* return [res.to_dict() for res in results]
WSearchTraverse(h) ==
    /\ w_pc[h] = "search_traverse"
    /\ LET c == w_call[h]
           results == IF c.op = "search_knn"
                      THEN search_knn(w_tree, c.vector, c.k)
                      ELSE search_range(w_tree, c.vector, c.radius)
       IN  WReturn(h, TRUE, to_dicts(results))
    /\ UNCHANGED <<w_tree, w_done, w_calls>>
    /\ workerFrame


\* a worker after construction: WorkerService.__init__ makes an empty tree
WorkerStart ==
    /\ w_tree = EmptyTree
    /\ w_pc = [h \in WThreads |-> "idle"]
    /\ w_call = [h \in WThreads |-> NoWorkerCall]
    /\ w_done = {}
    /\ w_calls = 0

(***************************************************************************)
(* Spec: the coordinator's threads call register_worker, deregister_worker *)
(* and insert_vector in any interleaving; the workers answer               *)
(***************************************************************************)
Init ==
    /\ consistent_hasher = EmptyHasher
    /\ ring_call = NoCall
    /\ answers = NoAnswers
    /\ ring_ops = 0
    /\ CoordStart
    /\ WorkerStart

Next ==
    \/ \E t \in Threads, n \in NodeIds, u \in Urls : RegisterCall(t, n, u)
    \/ \E t \in Threads : RegisterLocked(t)
    \/ \E t \in Threads : RegisterAddNode(t)
    \/ \E t \in Threads, n \in NodeIds : DeregisterCall(t, n)
    \/ \E t \in Threads : DeregisterLocked(t)
    \/ \E t \in Threads : DeregisterRemoveNode(t)
    \/ \E t \in Threads, v \in Vectors : InsertCall(t, v)
    \/ \E t \in Threads : InsertGetNode(t)
    \/ \E t \in Threads : InsertLookup(t)
    \/ \E t \in Threads : InsertRemoveNode(t)
    \/ \E t \in Threads : InsertPost(t)
    \/ \E t \in Threads : InsertPostFails(t)
    \/ \E req \in http : WorkerInsert(req)
    \/ \E t \in Threads : InsertResponse(t)
    \/ \E t \in Threads : InsertTimeout(t)

Spec == Init /\ [][Next]_vars

\* the worker ids of the registry
RegisteredIds == {worker_nodes[i].node_id : i \in 1..Len(worker_nodes)}

\* C1 (as claimed): whenever no thread is inside the locked section of
\* register_worker or deregister_worker, the set of worker ids in the registry
\* equals the set of physical node ids of the ring, in every interleaving of
\* register_worker, deregister_worker and insert_vector calls.
C1_RegistryMatchesRing ==
    node_lock = None => RegisteredIds = consistent_hasher.nodes

\* the sum of all workers' tree sizes
RECURSIVE SumSizes(_)
SumSizes(urls) ==
    IF urls = {}
    THEN 0
    ELSE LET u == CHOOSE x \in urls : TRUE
         IN  Len(m_tree[u]) + SumSizes(urls \ {u})

\* no call is being served and no request is on its way
Quiescent == (\A t \in Threads : pc[t] = "idle") /\ http = {}

\* inserts a worker has applied whose answer the coordinator has yet to read
AppliedUnread == Cardinality({req \in http : req.status = "201"})

\* C2 (as claimed): when nothing is in progress, the sum of all workers' tree
\* sizes equals the number of accepted insert_vector calls.
C2_SumIsAccepted == Quiescent => SumSizes(Urls) = accepted

\* C2 (amended): an insert_vector call posts at most once, to the url the
\* registry gave for the node that get_node(vector id) named; a worker's tree
\* changes only by a request addressed to it, by that request's vector; a call
\* that returned False posts nothing more; and the sum of the tree sizes is
\* the accepted inserts plus the inserts a worker applied although the call
\* had timed out (plus those applied whose answer is still unread).
C2_OnePostToTarget ==
    /\ [](\A t \in Threads :
            /\ Len(call[t].posts) <= 1
            /\ pc[t] = "idle" => call[t].posts = <<>>
            /\ \A i \in 1..Len(call[t].posts) :
                  call[t].posts[i] = call[t].target_node_url)
    /\ [](\A req \in http :
            ~req.abandoned => /\ call[req.from].vector = req.vector
                              /\ call[req.from].posts = <<req.url>>)
    /\ [](SumSizes(Urls) = accepted + late_applied + AppliedUnread)
    /\ [][\A t \in Threads :
            /\ (pc[t] = "insert_get_node" /\ pc'[t] = "insert_lookup") =>
                  call'[t].target_node_id =
                      get_node(consistent_hasher, call[t].vector.id)
            /\ (pc[t] = "insert_lookup" /\ pc'[t] = "insert_post") =>
                  call'[t].target_node_url =
                      WorkerUrl(worker_nodes, call[t].target_node_id)]_vars
    /\ [][\A u \in Urls :
            m_tree'[u] # m_tree[u] =>
               \E req \in http :
                  /\ req.url = u /\ req.status = "sent"
                  /\ m_tree'[u] = Append(m_tree[u], req.vector)
                  /\ \A o \in Urls \ {u} : m_tree'[o] = m_tree[o]]_vars

\* one insert was accepted and another, which timed out and returned False,
\* was applied by its worker all the same
C2_Witness ==
    /\ Quiescent
    /\ accepted = 1
    /\ late_applied = 1
    /\ SumSizes(Urls) = 2
    /\ \E t \in Threads : call[t].op = "insert_vector" /\ call[t].ret = FALSE

\* C22 (as claimed): an insert_vector of a well-formed vector that finds no
\* worker registered is answered with a 503 error, and no worker receives
\* the vector.
C22_NoWorkerInsertIs503 ==
    [][\A t \in Threads :
          (/\ pc[t] = "insert_get_node"
           /\ pc'[t] = "idle"
           /\ worker_nodes = <<>>) =>
              /\ call'[t].status = 503
              /\ http' = http
              /\ m_tree' = m_tree]_vars

\* C23 (as claimed): an insert_vector whose target, named by the ring, has
\* no endpoint in the registry fails, no worker receives the vector, and on
\* return the stale id is a member of neither the ring nor the registry.
C23_StaleTargetUnregistered ==
    [][\A t \in Threads :
          (pc[t] = "insert_remove_node" /\ pc'[t] = "idle") =>
              /\ call'[t].ret = FALSE
              /\ call[t].posts = <<>>
              /\ http' = http
              /\ m_tree' = m_tree
              /\ call[t].target_node_id \notin consistent_hasher'.nodes
              /\ ~Registered(worker_nodes', call[t].target_node_id)]_vars

C25_DuplicateRegisterIs409 ==
    [][\A t \in Threads :
          (/\ pc[t] = "register_lock"
           /\ pc'[t] # "register_lock"
           /\ Registered(worker_nodes, call[t].node_id)) =>
              call'[t].status = 409]_vars

\* C26 (as claimed): a /deregister_worker request for an id the registry
\* does not hold is answered with status 404 (not found) and leaves the
\* registry and the ring as they were.
C26_UnknownDeregisterIs404 ==
    [][\A t \in Threads :
          (/\ pc[t] = "deregister_lock"
           /\ pc'[t] # "deregister_lock"
           /\ ~Registered(worker_nodes, call[t].node_id)) =>
              /\ call'[t].status = 404
              /\ worker_nodes' = worker_nodes
              /\ consistent_hasher' = consistent_hasher]_vars

(***************************************************************************)
(* SpecQuery: search_knn and search_range calls, in any interleaving with  *)
(* register_worker and deregister_worker calls                             *)
(***************************************************************************)
QueryNext ==
    \/ \E t \in Threads, n \in NodeIds, u \in Urls : RegisterCall(t, n, u)
    \/ \E t \in Threads : RegisterLocked(t)
    \/ \E t \in Threads : RegisterAddNode(t)
    \/ \E t \in Threads, n \in NodeIds : DeregisterCall(t, n)
    \/ \E t \in Threads : DeregisterLocked(t)
    \/ \E t \in Threads : DeregisterRemoveNode(t)
    \/ \E t \in Threads, k \in Ks : SearchKnnCall(t, k)
    \/ \E t \in Threads : SearchRangeCall(t)
    \/ \E t \in Threads : SearchSnapshot(t)
    \/ \E t \in Threads, dicts \in Answers : SearchWorkerAnswers(t, dicts)
    \/ \E t \in Threads : SearchWorkerFails(t)
    \/ \E t \in Threads : SearchMerge(t)

SpecQuery == Init /\ [][QueryNext]_vars

\* the results of all workers that answered, one list after the other
RECURSIVE Union(_)
Union(responses) ==
    IF responses = <<>>
    THEN <<>>
    ELSE Head(responses).results \o Union(Tail(responses))

Distances(a) == [i \in 1..Len(a) |-> a[i].distance]

Ids(a) == {a[i].vector_id : i \in 1..Len(a)}

\* `results` is a call's answer to search_knn with k over the lists `union`
IsKnnOf(results, union, k) ==
    /\ Len(results) <= k
    /\ IsSorted(Distances(results))
    /\ Distances(results) = Distances(Slice(sort_by_distance(union), k))
    /\ \A i \in 1..Len(results) : \E j \in 1..Len(union) : union[j] = results[i]

\* C3 (as claimed): a search_knn call returns a result: at most k entries,
\* ascending by distance, the k least distant of the results of all workers
\* that answered (all of them when they are fewer than k).
C3_KnnIsKSmallest ==
    \A t \in Threads :
        (pc[t] = "idle" /\ call[t].op = "search_knn") =>
            /\ call[t].raised = None
            /\ IsKnnOf(call[t].results, Union(call[t].responses), call[t].k)

\* C4 (as claimed): a search_knn or search_range call in which a worker
\* failed returns all the same, with the merged results of the workers that
\* answered.
C4_FailedWorkerSkipped ==
    \A t \in Threads :
        (/\ pc[t] = "idle"
         /\ call[t].op \in {"search_knn", "search_range"}
         /\ call[t].failed > 0) =>
            /\ call[t].raised = None
            /\ IF call[t].op = "search_knn"
               THEN IsKnnOf(call[t].results, Union(call[t].responses), call[t].k)
               ELSE /\ Ids(call[t].results) = Ids(Union(call[t].responses))
                    /\ IsSorted(Distances(call[t].results))

\* C18: the result of the coordinator's search_range holds no vector id
\* twice (of the results of one id, the first in the order the workers were
\* asked is the one kept) and is ascending by distance.
C18_RangeDeduped ==
    \A t \in Threads :
        (pc[t] = "idle" /\ call[t].op = "search_range" /\ call[t].raised = None) =>
            LET res == call[t].results
                u   == Union(call[t].responses)
            IN  /\ \A i, j \in 1..Len(res) : i # j => res[i].vector_id # res[j].vector_id
                /\ IsSorted(Distances(res))
                /\ Ids(res) = Ids(u)
                /\ \A i \in 1..Len(res) :
                      \E n \in 1..Len(u) :
                          /\ u[n] = res[i]
                          /\ \A m \in 1..(n - 1) : u[m].vector_id # res[i].vector_id

\* a range search over two workers that dropped a second vec_0 and put the
\* second worker's vec_20 in front
C18_Witness ==
    \E t \in Threads :
        /\ pc[t] = "idle" /\ call[t].op = "search_range" /\ call[t].raised = None
        /\ Len(call[t].responses) = 2
        /\ Len(call[t].results) = 2
        /\ Len(Union(call[t].responses)) = 3
        /\ call[t].responses[1].results[1].vector_id = "vec_0"
        /\ call[t].results[1].vector_id = "vec_20"

\* C20 (as claimed): a search_knn or search_range in which every worker of
\* a registry that is not empty failed surfaces an error (AllWorkersFailed);
\* it does not return a result.
C20_AllWorkersFailedSurfaces ==
    \A t \in Threads :
        (/\ pc[t] = "idle"
         /\ call[t].op \in {"search_knn", "search_range"}
         /\ call[t].failed > 0
         /\ call[t].responses = <<>>) =>
            call[t].raised # None

\* the vector ids in the order of Python's str comparison
IdOrder == <<"vec_0", "vec_10", "vec_20", "vec_8">>

IdRank(id) == CHOOSE i \in 1..Len(IdOrder) : IdOrder[i] = id

\* C34 (as claimed): in the list a search_knn or search_range call returns,
\* results of equal distance are in ascending order of their vector ids, so
\* the list does not depend on the order the workers were contacted in.
C34_TiesInIdOrder ==
    \A t \in Threads :
        (/\ pc[t] = "idle"
         /\ call[t].op \in {"search_knn", "search_range"}
         /\ call[t].raised = None) =>
            \A i, j \in 1..Len(call[t].results) :
                (/\ i < j
                 /\ call[t].results[i].distance = call[t].results[j].distance) =>
                    IdRank(call[t].results[i].vector_id)
                        <= IdRank(call[t].results[j].vector_id)

\* the workers a search call has contacted: those that answered and those
\* that failed
Contacted(c) == Len(c.responses) + c.failed

\* the search of thread t takes its snapshot, and the snapshot is the
\* registry of that instant
SnapshotIsRegistry(t) ==
    (pc[t] = "search_snapshot" /\ pc'[t] = "search_loop") =>
        call'[t].active_workers = worker_nodes

\* while the search of thread t is in its loop, the workers it has yet to
\* contact change only by the contact of the first of them: no registration
\* adds a worker to them, no deregistration takes one away
ContactsHeadOnly(t) ==
    (pc[t] = "search_loop" /\ pc'[t] = "search_loop") =>
        \/ /\ call'[t].active_workers = call[t].active_workers
           /\ Contacted(call'[t]) = Contacted(call[t])
        \/ /\ call[t].active_workers # <<>>
           /\ call'[t].active_workers = Tail(call[t].active_workers)
           /\ Contacted(call'[t]) = Contacted(call[t]) + 1
           /\ Len(call'[t].responses) > Len(call[t].responses) =>
                  call'[t].responses[Len(call'[t].responses)].node_id
                      = Head(call[t].active_workers).node_id

\* the search of thread t leaves its loop with no worker of its snapshot
\* left to contact
ContactsAll(t) ==
    (pc[t] = "search_loop" /\ pc'[t] = "idle") =>
        Len(call[t].active_workers) = Contacted(call'[t]) - Contacted(call[t])

\* C35 (as claimed): a search_knn or search_range call contacts the workers
\* that were registered at the instant of its snapshot, each of them once
\* and no other: a worker registered later is not contacted, a worker
\* deregistered later still is.
C35_ContactsSnapshotOnce ==
    [][\A t \in Threads :
          /\ SnapshotIsRegistry(t)
          /\ ContactsHeadOnly(t)
          /\ ContactsAll(t)]_vars

\* C21 (as claimed): a search_knn or search_range issued while the registry
\* is empty is answered with a 503 error (NoActiveWorkers), not with a
\* successful empty result.  A finished call asked no worker (no response, no
\* failure) exactly when the registry was empty at its snapshot.
C21_NoActiveWorkersSurfaces ==
    \A t \in Threads :
        (/\ pc[t] = "idle"
         /\ call[t].op \in {"search_knn", "search_range"}
         /\ call[t].responses = <<>>
         /\ call[t].failed = 0) =>
            /\ call[t].raised # None
            /\ call[t].status = 503

(***************************************************************************)
(* SpecRing: any sequence of add_node, remove_node and get_node calls      *)
(***************************************************************************)
RingInit ==
    /\ consistent_hasher = EmptyHasher
    /\ ring_call = NoCall
    /\ answers = NoAnswers
    /\ ring_ops = 0
    /\ CoordStart
    /\ WorkerStart

RingAddNode(n) ==
    /\ ring_ops < MaxRingOps
    /\ ring_ops' = ring_ops + 1
    /\ consistent_hasher' = add_node(consistent_hasher, n)
    /\ ring_call' = [op |-> "add_node", arg |-> n, ret |-> None,
                     before |-> consistent_hasher]
    /\ answers' = NoAnswers
    /\ UNCHANGED coordVars
    /\ UNCHANGED workerVars

RingRemoveNode(n) ==
    /\ ring_ops < MaxRingOps
    /\ ring_ops' = ring_ops + 1
    /\ consistent_hasher' = remove_node(consistent_hasher, n)
    /\ ring_call' = [op |-> "remove_node", arg |-> n, ret |-> None,
                     before |-> consistent_hasher]
    /\ answers' = NoAnswers
    /\ UNCHANGED coordVars
    /\ UNCHANGED workerVars

\* a get_node that files the key's hash on the ring (insort for bisect_left)
get_node_effect_insort(h, key) ==
    IF Len(h.ring) = 0
    THEN h
    ELSE [h EXCEPT !.ring = ListInsert(h.ring, bisect_left(h.ring, _hash(key)),
                                       _hash(key))]

\* the state get_node leaves behind: it assigns nothing
get_node_effect(h, key) == h

RingGetNode(k) ==
    /\ consistent_hasher' = get_node_effect(consistent_hasher, k)
    /\ ring_call' = [op |-> "get_node", arg |-> k,
                     ret |-> get_node(consistent_hasher, k),
                     before |-> consistent_hasher]
    /\ answers' = [answers EXCEPT ![k] =
                       [n    |-> IF @.n < 2 THEN @.n + 1 ELSE 2,
                        rets |-> @.rets \cup {get_node(consistent_hasher, k)}]]
    /\ UNCHANGED ring_ops
    /\ UNCHANGED coordVars
    /\ UNCHANGED workerVars

RingNext ==
    \/ \E n \in NodeIds : RingAddNode(n)
    \/ \E n \in NodeIds : RingRemoveNode(n)
    \/ \E k \in Keys : RingGetNode(k)

SpecRing == RingInit /\ [][RingNext]_vars

(***************************************************************************)
(* The ring as the specification describes it: the (hash_point, node_id)   *)
(* pairs of the virtual keys of the physical nodes present                 *)
(***************************************************************************)
VirtualPoints(h) ==
    {<<_hash(VirtualKey(n, i)), n>> : n \in h.nodes, i \in 0..(Replicas - 1)}

\* the hash point a key is served by: the least one >= the key's hash,
\* the smallest of all when there is none
ServingPoint(points, key_hash) ==
    LET ge == {p \in points : p >= key_hash}
    IN  IF ge # {} THEN Min(ge) ELSE Min(points)

\* C5 (as claimed): after any sequence of add_node and remove_node calls the
\* list of virtual points is sorted ascending and holds exactly
\* REPLICAS x (number of physical nodes) entries, colliding virtual keys
\* included.
C5_SortedAndSized ==
    /\ IsSorted(consistent_hasher.ring)
    /\ Len(consistent_hasher.ring) = Replicas * Cardinality(consistent_hasher.nodes)

\* C6 (as claimed): on a ring with nodes, get_node(key) returns the physical
\* node of the least virtual point whose hash is >= hash(key), and the node
\* of the smallest virtual point when there is none.
C6_GetNodeSuccessor ==
    (ring_call.op = "get_node" /\ ring_call.before.nodes # {}) =>
        LET vp == VirtualPoints(ring_call.before)
            sp == ServingPoint({pn[1] : pn \in vp}, _hash(ring_call.arg))
        IN  <<sp, ring_call.ret>> \in vp

C27_AddKnownFails ==
    (ring_call.op = "add_node" /\ ring_call.arg \in ring_call.before.nodes) =>
        /\ ring_call.ret = "AlreadyPresent"
        /\ consistent_hasher = ring_call.before

\* C28 (as claimed): remove_node(id) for an id the ring does not hold fails
\* with a NotFound error and leaves the ring as it was.
C28_RemoveUnknownFails ==
    (ring_call.op = "remove_node" /\ ring_call.arg \notin ring_call.before.nodes) =>
        /\ ring_call.ret = "NotFound"
        /\ consistent_hasher = ring_call.before

\* C29 (as claimed): get_node(key) on a ring with no nodes fails with an
\* EmptyRing error; it does not return a value.
C29_GetNodeEmptyFails ==
    (ring_call.op = "get_node" /\ ring_call.before.nodes = {}) =>
        ring_call.ret = "EmptyRing"

\* C30 (as claimed): after remove_node(id) on a ring that holds id, no
\* virtual point of the ring maps to id, and while a node remains get_node
\* returns, for every key, a node of the ring (so one other than id).
C30_RemovedNodeServesNothing ==
    (ring_call.op = "remove_node" /\ ring_call.arg \in ring_call.before.nodes) =>
        /\ \A p \in DOMAIN consistent_hasher.node_map :
              consistent_hasher.node_map[p] # ring_call.arg
        /\ consistent_hasher.nodes # {} =>
              \A k \in Keys :
                  get_node(consistent_hasher, k) \in consistent_hasher.nodes

\* C38 (as claimed): add_node(x) on a ring that does not hold x, followed at
\* once by remove_node(x), gives back the ring as it was: the same nodes, the
\* same virtual points and owners, the same get_node answer for every key.
C38_AddThenRemoveRestores ==
    [][(/\ ring_call.op = "add_node"
        /\ ring_call.arg \notin ring_call.before.nodes
        /\ ring_call'.op = "remove_node"
        /\ ring_call'.arg = ring_call.arg) =>
           /\ consistent_hasher' = ring_call.before
           /\ \A k \in Keys :
                 get_node(consistent_hasher', k) = get_node(ring_call.before, k)]_vars

\* C39: remove_node(x) changes the assignment only of keys that were
\* assigned to x: a key get_node mapped to another node before the call maps
\* to the same node after it.
C39_RemoveMovesOnlyOwnKeys ==
    (ring_call.op = "remove_node" /\ ring_call.arg \in ring_call.before.nodes) =>
        \A k \in Keys :
            LET was == get_node(ring_call.before, k)
            IN  (was \in ring_call.before.nodes /\ was # ring_call.arg) =>
                    get_node(consistent_hasher, k) = was

\* a node was removed; one key it served is served by another node now and
\* one key is served by the node that served it before
C39_Witness ==
    /\ ring_call.op = "remove_node"
    /\ ring_call.arg \in ring_call.before.nodes
    /\ \E k \in Keys :
          /\ get_node(ring_call.before, k) = ring_call.arg
          /\ get_node(consistent_hasher, k) \in consistent_hasher.nodes
    /\ \E k \in Keys :
          /\ get_node(ring_call.before, k) \in consistent_hasher.nodes
          /\ get_node(consistent_hasher, k) = get_node(ring_call.before, k)

\* C40: add_node(x) on a ring with nodes moves keys only to x: for every key
\* get_node returns the node it returned before the call, or x.
C40_AddMovesKeysOnlyToNew ==
    (ring_call.op = "add_node" /\ ring_call.before.nodes # {}) =>
        \A k \in Keys :
            LET was == get_node(ring_call.before, k)
            IN  was \in ring_call.before.nodes =>
                    get_node(consistent_hasher, k) \in {was, ring_call.arg}

\* a new node was added to a ring with nodes; one key moved to it and one
\* key stayed where it was
C40_Witness ==
    /\ ring_call.op = "add_node"
    /\ ring_call.before.nodes # {}
    /\ ring_call.arg \notin ring_call.before.nodes
    /\ \E k \in Keys :
          /\ get_node(ring_call.before, k) \in ring_call.before.nodes
          /\ get_node(consistent_hasher, k) = ring_call.arg
    /\ \E k \in Keys :
          /\ get_node(ring_call.before, k) \in ring_call.before.nodes
          /\ get_node(consistent_hasher, k) = get_node(ring_call.before, k)

(***************************************************************************)
(* SpecTree: any sequence of inserts into one metric tree                  *)
(***************************************************************************)
TreeInsert(v) ==
    /\ w_calls < MaxInserts
    /\ w_calls' = w_calls + 1
    /\ w_tree' = insert(w_tree, v).root
    /\ UNCHANGED <<w_pc, w_call, w_done>>
    /\ UNCHANGED ringVars
    /\ UNCHANGED coordVars

TreeNext == \E v \in TreeVectors : TreeInsert(v)

SpecTree == Init /\ [][TreeNext]_vars

\* C10: after any sequence of inserts of vectors of one dimension, all the
\* leaves of the tree are at the same depth.
C10_HeightUniform == Cardinality(LeafDepths(w_tree, 0)) = 1

\* a tree of three levels: an internal node below the root has split
C10_Witness == LeafDepths(w_tree, 0) = {2}

\* the entry counts of the leaves below a node, leaf by leaf
RECURSIVE LeafSizes(_)
LeafSizes(node) ==
    IF node.is_leaf
    THEN <<Len(node.entries)>>
    ELSE LET RECURSIVE Below(_)
             Below(entries) ==
                 IF entries = <<>>
                 THEN <<>>
                 ELSE LeafSizes(Head(entries).child) \o Below(Tail(entries))
         IN  Below(node.entries)

RECURSIVE Covered(_)
Covered(node) ==
    \/ node.is_leaf
    \/ \A i \in 1..Len(node.entries) :
          LET E    == node.entries[i]
              data == DataOf(E.child)
          IN  /\ \A n \in 1..Len(data) : euclidean_distance(E.obj, data[n]) <= E.radius
              /\ Covered(E.child)

\* C11: after any sequence of inserts, splits and cascades included, every
\* data vector v reachable through an internal entry with routing object p
\* and covering radius r has d(p, v) <= r.
C11_Coverage == Covered(w_tree)

\* a tree of three levels with an entry of the root whose radius was widened
C11_Witness ==
    /\ LeafDepths(w_tree, 0) = {2}
    /\ \E i \in 1..Len(w_tree.entries) : w_tree.entries[i].radius > 0

\* the nodes below `node` hold between MIN_CHILDREN and MAX_CHILDREN entries
RECURSIVE FanOut(_)
FanOut(node) ==
    \/ node.is_leaf
    \/ \A i \in 1..Len(node.entries) :
          /\ Len(node.entries[i].child.entries) >= MinChildren
          /\ Len(node.entries[i].child.entries) <= MaxChildren
          /\ FanOut(node.entries[i].child)

\* C12: after any sequence of inserts every node but the root holds at least
\* MIN_CHILDREN and at most MAX_CHILDREN entries, and the root at most
\* MAX_CHILDREN.
C12_FanOutBounds ==
    /\ Len(w_tree.entries) <= MaxChildren
    /\ FanOut(w_tree)

\* a split whose hyperplane partition was uneven: a leaf of MIN_CHILDREN
\* entries that holds p3 next to a vector closer to the other side
C12_Witness ==
    /\ ~w_tree.is_leaf
    /\ \E i \in 1..Len(w_tree.entries) :
          LET leaf == w_tree.entries[i].child
          IN  /\ leaf.is_leaf
              /\ Len(leaf.entries) = MinChildren
              /\ \E a, b \in 1..Len(leaf.entries) :
                    leaf.entries[a].obj.id = "p3" /\ leaf.entries[b].obj.id = "p0"

(***************************************************************************)
(* SpecWorker: insert, knn and range requests to one worker, served by its *)
(* handler threads in any interleaving                                     *)
(***************************************************************************)
WorkerNext ==
    \/ \E h \in WThreads, v \in WorkerVectors : WInsertCall(h, v)
    \/ \E h \in WThreads : WInsertAppend(h)
    \/ \E h \in WThreads : WInsertDetach(h)
    \/ \E h \in WThreads : WInsertRepair(h)
    \/ \E h \in WThreads, q \in QueryVectors, r \in Radii : WSearchRangeCall(h, q, r)
    \/ \E h \in WThreads, q \in QueryVectors, k \in WorkerKs : WSearchKnnCall(h, q, k)
    \/ \E h \in WThreads : WSearchTraverse(h)

SpecWorker == Init /\ [][WorkerNext]_vars

\* C8 (as claimed): a knn or range query that started after the insert of v
\* had returned success sees v: a range query whose radius covers v returns
\* it, and so does a knn whose k is at least the size of the tree.
C8_InsertedIsSeen ==
    \A h \in WThreads :
        (w_pc[h] = "idle" /\ w_call[h].op \in {"search_range", "search_knn"}) =>
            \A v \in WorkerVectors :
                (/\ v.id \in w_call[h].done_at_start
                 /\ IF w_call[h].op = "search_range"
                    THEN euclidean_distance(w_call[h].vector, v) <= w_call[h].radius
                    ELSE w_call[h].k >= MaxWCalls) =>
                    v.id \in Ids(w_call[h].results)

\* C9 (as claimed): while an insert is modifying the tree, no knn or range
\* traversal and no other insert is in progress on it.
C9_InsertExclusive ==
    \A h \in WThreads :
        w_pc[h] \in {"insert_fixup", "insert_replace"} =>
            \A o \in WThreads \ {h} : w_pc[o] = "idle"

(***************************************************************************)
(* SpecService: one client at a time calls a worker: insert_vector,        *)
(* search_knn and search_range of WorkerService, one after the other.  The *)
(* vectors of the model differ in their first coordinate only.             *)
(***************************************************************************)
ServiceVectors == TreeVectors \cup { Vector("p9", <<0, 0>>) }
ServiceQueries == { Vector("q1", <<1>>), Vector("q9", <<0, 0>>) }
ServiceKs == {2, MaxInserts}
ServiceRadii == {0, 1}

\* the thread that serves the client
Serving == WThreadOrder[1]

\* the last call and its answer are kept in w_call
ServiceAnswer(c, ok, results) ==
    /\ w_call' = [w_call EXCEPT ![Serving] = Answered(c, ok, results)]
    /\ UNCHANGED w_pc
    /\ workerFrame

\* POST /insert -> WorkerService.insert_vector(vector_data)
ServiceInsert(v) ==
    LET Done(r) ==
            /\ w_tree' = r.root
            /\ w_done' = IF r.raised THEN w_done ELSE w_done \cup {v.id}
            /\ ServiceAnswer([NoWorkerCall EXCEPT !.op = "insert", !.vector = v],
                             ~r.raised, <<>>)
    IN  /\ w_calls < MaxInserts
        /\ w_calls' = w_calls + 1
        /\ Done(insert(w_tree, v))

\* POST /search/knn -> WorkerService.search_knn(query_vector_data, k)
ServiceSearchKnn(q, k) ==
    /\ IF search_raises(w_tree, q)
       THEN ServiceAnswer([NoWorkerCall EXCEPT !.op = "search_knn", !.vector = q, !.k = k],
                          FALSE, <<>>)
       ELSE ServiceAnswer([NoWorkerCall EXCEPT !.op = "search_knn", !.vector = q, !.k = k],
                          TRUE, to_dicts(search_knn(w_tree, q, k)))
    /\ UNCHANGED <<w_tree, w_done, w_calls>>

\* POST /search/range -> WorkerService.search_range(query_vector_data, radius)
ServiceSearchRange(q, r) ==
    /\ IF search_raises(w_tree, q)
       THEN ServiceAnswer([NoWorkerCall EXCEPT !.op = "search_range", !.vector = q,
                                               !.radius = r],
                          FALSE, <<>>)
       ELSE ServiceAnswer([NoWorkerCall EXCEPT !.op = "search_range", !.vector = q,
                                               !.radius = r],
                          TRUE, to_dicts(search_range(w_tree, q, r)))
    /\ UNCHANGED <<w_tree, w_done, w_calls>>

ServiceNext ==
    \/ \E v \in ServiceVectors : ServiceInsert(v)
    \/ \E q \in ServiceQueries, k \in ServiceKs : ServiceSearchKnn(q, k)
    \/ \E q \in ServiceQueries, r \in ServiceRadii : ServiceSearchRange(q, r)

SpecService == Init /\ [][ServiceNext]_vars

\* the last call of the client
Last == w_call[Serving]

\* the distances from q to the stored vectors, ascending: the brute-force scan
BruteForce(root, q) ==
    LET data == DataOf(root)
    IN  Distances(sort_by_distance(
            [i \in 1..Len(data) |-> SearchResult(data[i], euclidean_distance(q, data[i]))]))

\* C13: the distances knn(q, k) returns are the k least distances of a
\* brute-force scan of the stored vectors: the pruning loses no neighbour.
C13_KnnIsBruteForce ==
    (Last.op = "search_knn" /\ ~Last.raised) =>
        Distances(Last.results) =
            SubSeq(BruteForce(w_tree, Last.vector), 1,
                   Min({Last.k, size(w_tree)}))

\* a knn on a tree of three levels that holds more than k vectors, not all
\* at one distance from q
C13_Witness ==
    /\ Last.op = "search_knn" /\ ~Last.raised
    /\ LeafDepths(w_tree, 0) = {2}
    /\ Last.k < size(w_tree)
    /\ Len(Last.results) = Last.k
    /\ \E i \in 1..size(w_tree) :
          BruteForce(w_tree, Last.vector)[i] > Last.results[Last.k].distance

\* C14: knn(q, k) returns min(k, size) results, ascending by distance; on
\* an empty tree it returns the empty list.
C14_KnnLength ==
    (Last.op = "search_knn" /\ ~Last.raised) =>
        /\ Len(Last.results) = Min({Last.k, size(w_tree)})
        /\ IsSorted(Distances(Last.results))
        /\ size(w_tree) = 0 => Last.results = <<>>

\* a knn that asks for more than the tree holds and gets all of it, at
\* more than one distance
C14_Witness ==
    /\ Last.op = "search_knn" /\ ~Last.raised
    /\ size(w_tree) > MaxChildren
    /\ Last.k > size(w_tree)
    /\ Len(Last.results) = size(w_tree)
    /\ Last.results[1].distance < Last.results[Len(Last.results)].distance

\* how many entries of the sequence `a` satisfy Test
Count(a, Test(_)) == Len(SelectSeq(a, Test))

\* C15: range(q, r) returns exactly the stored vectors v with d(q, v) <= r,
\* those at distance r included, none missing and none extra, ascending by
\* distance.
C15_RangeExact ==
    (Last.op = "search_range" /\ ~Last.raised) =>
        /\ IsSorted(Distances(Last.results))
        /\ \A v \in ServiceVectors :
              LET IsV(x) == x.id = v.id
                  ResultIsV(d) == d.vector_id = v.id
                  stored == IF dim(v) = dim(Last.vector)
                               /\ euclidean_distance(Last.vector, v) <= Last.radius
                            THEN Count(DataOf(w_tree), IsV)
                            ELSE 0
              IN  /\ Count(Last.results, ResultIsV) = stored
                  /\ \A i \in 1..Len(Last.results) :
                        Last.results[i].vector_id = v.id =>
                            Last.results[i].distance = euclidean_distance(Last.vector, v)

\* a range search on a tree of three levels that returns a vector at the
\* boundary distance and leaves one out
C15_Witness ==
    /\ Last.op = "search_range" /\ ~Last.raised
    /\ LeafDepths(w_tree, 0) = {2}
    /\ Last.radius > 0
    /\ Last.results # <<>>
    /\ Last.results[Len(Last.results)].distance = Last.radius
    /\ Len(Last.results) < size(w_tree)

C17_SearchFailureSurfaces ==
    (Last.op \in {"search_knn", "search_range"} /\ Last.raised) =>
        Last.status # 200

\* C33 (as claimed): a worker search with a parameter that is not positive
\* (k <= 0 on /search/knn, radius <= 0 on /search/range) is answered with a
\* 400 error and runs no search on the tree: it carries no results.
C33_NonPositiveParameterIs400 ==
    (\/ Last.op = "search_knn" /\ Last.k <= 0
     \/ Last.op = "search_range" /\ Last.radius <= 0) =>
        /\ Last.status = 400
        /\ Last.results = <<>>

(***************************************************************************)
(* SpecUpdate: one worker called by one client at a time, with vectors of  *)
(* which two carry one id                                                  *)
(***************************************************************************)
UpdateVectors ==
    { Vector("v1", <<1>>), Vector("v1", <<3>>), Vector("v2", <<2>>) }
UpdateQueries == { Vector("query_v1", <<1>>), Vector("query_v1_new", <<3>>) }

UpdateNext ==
    \/ \E v \in UpdateVectors : ServiceInsert(v)
    \/ \E q \in UpdateQueries : ServiceSearchKnn(q, 1)
    \/ \E q \in UpdateQueries : ServiceSearchRange(q, 2)

SpecUpdate == Init /\ [][UpdateNext]_vars

\* C31: an insert of a vector whose id the tree stores adds an entry and
\* replaces none: the size grows by exactly 1, every stored entry stays and
\* the new one is stored, and each stored vector of that id, old or new, is
\* found by a search at its place.
C31_DuplicateIdAppends ==
    [][ (/\ w_calls' = w_calls + 1
         /\ \E i \in 1..size(w_tree) : DataOf(w_tree)[i].id = Last'.vector.id)
        => LET new == Last'.vector
               Found(tree, x) ==
                   LET IsX(res) == res.vector = x
                       SameX(y) == y = x
                   IN  /\ Count(search_range(tree, x, 0), IsX) = Count(DataOf(tree), SameX)
                       /\ search_knn(tree, x, 1)[1].vector.id = x.id
                       /\ search_knn(tree, x, 1)[1].distance = 0
               Kept(before, after) ==
                   /\ Len(after) = Len(before) + 1
                   /\ \A v \in UpdateVectors :
                         LET SameV(y) == y = v
                         IN  Count(after, SameV) =
                                 Count(before, SameV) + (IF v = new THEN 1 ELSE 0)
           IN  /\ Last'.ok
               /\ Last'.status = 201
               /\ Kept(DataOf(w_tree), DataOf(w_tree'))
               /\ \A v \in UpdateVectors :
                     (v.id = new.id /\ \E i \in 1..size(w_tree') : DataOf(w_tree')[i] = v)
                         => Found(w_tree', v) ]_vars

\* a range search on a tree that has split returned two results of one id,
\* at different distances: the vector stored first and the one stored later
C31_Witness ==
    /\ Last.op = "search_range" /\ ~Last.raised
    /\ ~w_tree.is_leaf
    /\ \E i, j \in 1..Len(Last.results) :
          /\ Last.results[i].vector_id = Last.results[j].vector_id
          /\ Last.results[i].distance # Last.results[j].distance

(***************************************************************************)
(* SpecStore: workers are registered, vectors are inserted through the     *)
(* coordinator and accepted, and search_range asks every worker, which     *)
(* answers with what its tree stores within the radius.  No worker fails.  *)
(***************************************************************************)
\* the query of the clients and its radius
Query == Vector("q", <<3>>)
Radius == 1

\* each worker registers under its own id with the url it listens on
StoreNodes == {"worker_47976", "worker_17"}
UrlOf(node_id) ==
    IF node_id = "worker_47976" THEN "http://localhost:7001" ELSE "http://localhost:7002"

\* the vectors the clients insert: those of the query's dimension
StoreVectors == {v \in Vectors : dim(v) = dim(Query)}

\* WorkerService.search_range on a worker whose tree stores `tree`: the
\* stored entries within the radius, ascending by distance; [] when the
\* search raised
StoredRange(tree) ==
    IF Len(tree) > 0 /\ dim(Query) # dim(tree[1])
    THEN <<>>
    ELSE LET Near(v) == euclidean_distance(Query, v) <= Radius
             near    == SelectSeq(tree, Near)
         IN  to_dicts(sort_by_distance(
                 [i \in 1..Len(near) |->
                     SearchResult(near[i], euclidean_distance(Query, near[i]))]))

\* the next worker answers 200 with the results of its tree
SearchWorkerStored(t) ==
    /\ pc[t] = "search_loop"
    /\ call[t].active_workers # <<>>
    /\ SearchWorkerAnswers(t, StoredRange(m_tree[Head(call[t].active_workers).node_url]))

StoreNext ==
    \/ \E t \in Threads, n \in StoreNodes : RegisterCall(t, n, UrlOf(n))
    \/ \E t \in Threads : RegisterLocked(t)
    \/ \E t \in Threads : RegisterAddNode(t)
    \/ \E t \in Threads, v \in StoreVectors : InsertCall(t, v)
    \/ \E t \in Threads : InsertGetNode(t)
    \/ \E t \in Threads : InsertLookup(t)
    \/ \E t \in Threads : InsertPost(t)
    \/ \E req \in http : WorkerInsert(req)
    \/ \E t \in Threads : InsertResponse(t)
    \/ \E t \in Threads : SearchRangeCall(t)
    \/ \E t \in Threads : SearchSnapshot(t)
    \/ \E t \in Threads : SearchWorkerStored(t)
    \/ \E t \in Threads : SearchMerge(t)

SpecStore == Init /\ [][StoreNext]_vars

\* C19 (as claimed): after accepted inserts, repeated ids included, a range
\* search that every worker answers returns one entry for every stored entry
\* within the radius: the merge drops none of them.
C19_MergeDropsNothing ==
    \A t \in Threads :
        (/\ pc[t] = "idle" /\ call[t].op = "search_range"
         /\ call[t].raised = None /\ call[t].failed = 0) =>
            Len(call[t].results) = Len(Union(call[t].responses))

(***************************************************************************)
(* SpecLock: register_worker and deregister_worker calls next to inserts   *)
(* and range searches whose workers may answer late or never.  A thread    *)
(* that can take a step of register_worker or deregister_worker takes it   *)
(* in the end; nothing is assumed of the workers and of the other calls.   *)
(***************************************************************************)
LockNext ==
    \/ \E t \in Threads, n \in StoreNodes : RegisterCall(t, n, UrlOf(n))
    \/ \E t \in Threads : RegisterLocked(t)
    \/ \E t \in Threads : RegisterAddNode(t)
    \/ \E t \in Threads, n \in StoreNodes : DeregisterCall(t, n)
    \/ \E t \in Threads : DeregisterLocked(t)
    \/ \E t \in Threads : DeregisterRemoveNode(t)
    \/ \E t \in Threads, v \in StoreVectors : InsertCall(t, v)
    \/ \E t \in Threads : InsertGetNode(t)
    \/ \E t \in Threads : InsertLookup(t)
    \/ \E t \in Threads : InsertRemoveNode(t)
    \/ \E t \in Threads : InsertPost(t)
    \/ \E req \in http : WorkerInsert(req)
    \/ \E t \in Threads : InsertResponse(t)
    \/ \E t \in Threads : InsertTimeout(t)
    \/ \E t \in Threads : SearchRangeCall(t)
    \/ \E t \in Threads : SearchSnapshot(t)
    \/ \E t \in Threads : SearchWorkerStored(t)
    \/ \E t \in Threads : SearchWorkerFails(t)
    \/ \E t \in Threads : SearchMerge(t)

\* the handler threads are scheduled fairly: a thread inside register_worker
\* or deregister_worker that can go on does go on (each of these steps
\* moves the thread, so it changes pc)
LockFairness ==
    \A t \in Threads :
        /\ WF_pc(RegisterLocked(t))
        /\ WF_pc(RegisterAddNode(t))
        /\ WF_pc(DeregisterLocked(t))
        /\ WF_pc(DeregisterRemoveNode(t))

SpecLock == Init /\ [][LockNext]_vars /\ LockFairness

\* thread t waits for the answer of a worker
RpcInFlight(t) ==
    \/ pc[t] = "insert_wait"
    \/ pc[t] = "search_loop" /\ call[t].active_workers # <<>>

\* thread t is inside register_worker or deregister_worker
InMembershipCall(t) ==
    pc[t] \in {"register_lock", "register_add_node",
               "deregister_lock", "deregister_remove_node"}

\* some thread can take a step of register_worker or deregister_worker
MembershipStepEnabled ==
    \E t \in Threads :
        \/ ENABLED RegisterLocked(t)
        \/ ENABLED RegisterAddNode(t)
        \/ ENABLED DeregisterLocked(t)
        \/ ENABLED DeregisterRemoveNode(t)

\* C36: no thread holds node_lock while it waits for the answer of a
\* worker; whenever a thread is inside register_worker or deregister_worker
\* some such thread can take a step (no deadlock), whatever the workers do;
\* and every register_worker and deregister_worker call returns in the end.
C36_MembershipNeverBlocked ==
    /\ [](\A t \in Threads : RpcInFlight(t) => node_lock # t)
    /\ []((\E t \in Threads : InMembershipCall(t)) => MembershipStepEnabled)
    /\ \A t \in Threads : InMembershipCall(t) ~> (pc[t] = "idle")

\* a register_worker call has returned while the search of the other thread,
\* whose snapshot is smaller than the registry, waits for a worker
C36_Witness ==
    \E t, s \in Threads :
        /\ pc[t] = "search_loop"
        /\ call[t].active_workers # <<>>
        /\ Contacted(call[t]) + Len(call[t].active_workers) < Len(worker_nodes)
        /\ pc[s] = "idle"
        /\ call[s].op = "register_worker"
        /\ call[s].ret = TRUE

\* the urls of the registered workers
RegisteredUrls == {worker_nodes[i].node_url : i \in 1..Len(worker_nodes)}

\* the search of thread t is answered by the worker it contacts with what
\* that worker's tree stores within the radius
AnswerIsStored(t) ==
    (pc[t] = "search_loop" /\ Len(call'[t].responses) > Len(call[t].responses)) =>
        LET w == Head(call[t].active_workers)
        IN  call'[t].responses[Len(call'[t].responses)] =
                [node_id |-> w.node_id, results |-> StoredRange(m_tree[w.node_url])]

====
